---- MODULE Spec2Model ----
(***************************************************************************)
(* django_scim/adapters.py: the SCIM PATCH dispatcher of SCIMMixin and the *)
(* SCIMUser / SCIMGroup handlers, as a state machine over one user object  *)
(* and one group object.                                                   *)
(*                                                                         *)
(* Python values are tagged records (PyNone, PyStr, PyBool, PyList,        *)
(* PyDict); an exception is a result record whose kind is the exception's  *)
(* class name.  One step of a handle_operations call is one iteration of   *)
(* its for loop; the operations of a request are drawn one at a time, as   *)
(* the loop never looks ahead in the list.                                 *)
(***************************************************************************)
EXTENDS Integers, Sequences, FiniteSets, TLC

VARIABLES user, group, cur, last

vars == <<user, group, cur, last>>

(***************************************************************************)
(* Bounds of the model.                                                    *)
(***************************************************************************)
\* operations per handle_operations call
MaxOps == 2
\* keys of a mapping value
MaxKeys == 2
\* member references in one members list
MaxMembers == 3
\* entries in one emails list
MaxEmails == 3

BoundedSeq(S, n) == UNION {[1..k -> S] : k \in 0..n}

Range(q) == {q[i] : i \in 1..Len(q)}

(***************************************************************************)
(* Python values.                                                          *)
(***************************************************************************)
PyNone == [t |-> "none"]
PyStr(s) == [t |-> "str", str |-> s]
PyBool(b) == [t |-> "bool", bool |-> b]
\* a list of dicts; each item is a dict with a 'value' and a 'primary' key
PyList(q) == [t |-> "list", items |-> q]
\* a dict in insertion order: a sequence of [key, val] pairs with distinct
\* keys; a key is a string (RawKey) or a normalized path
PyDict(q) == [t |-> "dict", kv |-> q]
RawKey(s) == [k |-> "str", str |-> s]
\* an element of a list value: a dict with a 'value' string and a 'primary'
\* flag (an absent 'primary' reads as None, which is falsy)
Item(value, primary) == [value |-> value, primary |-> primary]

\* bool(v)
Truthy(v) ==
    CASE v.t = "none" -> FALSE
      [] v.t = "str"  -> v.str # ""
      [] v.t = "bool" -> v.bool
      [] v.t = "list" -> v.items # <<>>
      [] v.t = "dict" -> v.kv # <<>>

\* d[k] = v on an insertion-ordered dict: overwrite in place, else append
DictSet(q, k, v) ==
    IF \E i \in 1..Len(q) : q[i].key = k
    THEN [i \in 1..Len(q) |-> IF q[i].key = k THEN [key |-> k, val |-> v] ELSE q[i]]
    ELSE Append(q, [key |-> k, val |-> v])

\* d.get(k): the value under a string key, None when absent
DictGet(d, s) ==
    IF \E i \in 1..Len(d.kv) : d.kv[i].key = RawKey(s)
    THEN (CHOOSE p \in Range(d.kv) : p.key = RawKey(s)).val
    ELSE PyNone

(***************************************************************************)
(* Results: a normal return, or a raised exception.                        *)
(***************************************************************************)
Ok == [kind |-> "ok", detail |-> "", scim_type |-> ""]
Raise(kind, detail, scim_type) ==
    [kind |-> kind, detail |-> detail, scim_type |-> scim_type]

(***************************************************************************)
(* Paths.  NoPath is operation.get('path') of an operation with no path.   *)
(* A fragment is the 3-tuple (attr, subattr, uri); NoneS is a None         *)
(* component.                                                              *)
(***************************************************************************)
NoPath == "<None>"
NoneS == "<None>"

ComplexPathString == "members[value eq 1].displayName"
EmptyPathString == "<no attribute path>"

PathStrings ==
    {"userName", "name.givenName", "active", "emails", "members", "name",
     ComplexPathString, EmptyPathString}

\* list(AttrPaths(path + ' eq ""', ATTR_MAP)): the fragments the filter
\* parser finds in the path.  The parser is a library; this table gives its
\* result for one path of each kind: one fragment, several, none.
AttrPaths(path) ==
    CASE path = "userName" -> << <<"userName", NoneS, NoneS>> >>
      [] path = "name.givenName" -> << <<"name", "givenName", NoneS>> >>
      [] path = "active" -> << <<"active", NoneS, NoneS>> >>
      [] path = "emails" -> << <<"emails", NoneS, NoneS>> >>
      [] path = "members" -> << <<"members", NoneS, NoneS>> >>
      [] path = "name" -> << <<"name", NoneS, NoneS>> >>
      [] path = ComplexPathString ->
            << <<"members", "value", NoneS>>, <<"members", "displayName", NoneS>> >>
      [] path = EmptyPathString -> << >>

\* a normalized path: None, a 3-tuple, or a ComplexAttrPath
NPathNone == [k |-> "none"]
NPathTuple(f) == [k |-> "tuple", frag |-> f]
ComplexAttrPath(path, attr_paths) ==
    [k |-> "complex", path |-> path, attr_paths |-> attr_paths]

\* bool(path) of a normalized path: None is falsy, a 3-tuple and an object
\* are truthy
NPathTruthy(p) == p.k # "none"

handle_complex_attr_path(path, attr_paths) == ComplexAttrPath(path, attr_paths)

\* a misplaced test: a path of two fragments is handed back as its first
split_path_first_fragment(path) ==
    IF path = NoPath
    THEN [res |-> Raise("TypeError", "unsupported operand type(s) for +", ""),
          val |-> NPathNone]
    ELSE LET attr_paths == AttrPaths(path) IN
         IF Len(attr_paths) = 0
         THEN [res |-> Raise("NameError", "name 'scim_exceptions' is not defined", ""),
               val |-> NPathNone]
         ELSE IF Len(attr_paths) > 2
         THEN [res |-> Ok, val |-> handle_complex_attr_path(path, attr_paths)]
         ELSE [res |-> Ok, val |-> NPathTuple(attr_paths[1])]

\* split_path once the parser has returned attr_paths.  The zero-fragment
\* branch names scim_exceptions, which the module never imports, so
\* reaching it raises NameError.
SplitFragments(path, attr_paths) ==
    IF Len(attr_paths) = 0
    THEN [res |-> Raise("NameError", "name 'scim_exceptions' is not defined", ""),
          val |-> NPathNone]
    ELSE IF Len(attr_paths) > 1
    THEN [res |-> Ok, val |-> handle_complex_attr_path(path, attr_paths)]
    ELSE [res |-> Ok, val |-> NPathTuple(attr_paths[1])]

\* SCIMMixin.split_path.  path + ' eq ""' raises TypeError when path is
\* None.
split_path(path) ==
    IF path = NoPath
    THEN [res |-> Raise("TypeError", "unsupported operand type(s) for +", ""),
          val |-> NPathNone]
    ELSE SplitFragments(path, AttrPaths(path))

\* the loop of parse_path_and_value over value.items(): the first key whose
\* split fails raises; otherwise new_value[split_path(k)] = v for each pair
RECURSIVE SplitKeys(_, _)
RECURSIVE SplitKey(_, _, _)
SplitKeys(kv, acc) ==
    IF kv = <<>> THEN [res |-> Ok, val |-> acc]
    ELSE SplitKey(kv, acc, split_path(kv[1].key.str))

\* the body of that loop for the first pair of kv, whose key split to sp
SplitKey(kv, acc, sp) ==
    IF sp.res.kind # "ok" THEN [res |-> sp.res, val |-> acc]
    ELSE SplitKeys(Tail(kv), DictSet(acc, sp.val, kv[1].val))

\* the return of parse_path_and_value in its two branches
NormalizedDict(sk) == [res |-> sk.res, path |-> NPathNone, value |-> PyDict(sk.val)]
NormalizedPath(sp, value) == [res |-> sp.res, path |-> sp.val, value |-> value]

\* the keys of a mapping are resolved whether or not a path is given
parse_path_and_value_keys_always(path, value) ==
    IF value.t = "dict"
    THEN NormalizedDict(SplitKeys(value.kv, <<>>))
    ELSE NormalizedPath(split_path(path), value)

\* SCIMMixin.parse_path_and_value
parse_path_and_value(path, value) ==
    IF path = NoPath /\ value.t = "dict"
    THEN NormalizedDict(SplitKeys(value.kv, <<>>))
    ELSE NormalizedPath(split_path(path), value)

(***************************************************************************)
(* Strings.  Python compares strings by code point; StrOrder lists the     *)
(* strings of the model in that order.  int() and the e-mail validator are *)
(* given by what they do on these strings.                                 *)
(***************************************************************************)
StrOrder ==
    <<"", " a@x.com ", "01", "1", "2", "999", "NOPE", "a@x.com", "abc",
      "admins", "b@x.com", "bob", "old@x.com", "staff", "z@x.com">>

StrRank(s) == CHOOSE i \in 1..Len(StrOrder) : StrOrder[i] = s

\* a < b on strings
StrLess(a, b) == StrRank(a) < StrRank(b)

\* int(s) succeeds on decimal digit strings; a leading zero is dropped
IsIntString(s) == s \in {"01", "1", "2", "999"}
IntOf(s) ==
    CASE s = "01" -> 1
      [] s = "1" -> 1
      [] s = "2" -> 2
      [] s = "999" -> 999

\* s.strip()
Strip(s) == IF s = " a@x.com " THEN "a@x.com" ELSE s

\* core.validators.EmailValidator()(s) accepts s
EmailValid(s) == s \in {"a@x.com", "b@x.com", "old@x.com", "z@x.com"}

\* get_user_model().objects: the ids of the users that exist
ExistingUserIds == {1, 2}

(***************************************************************************)
(* SCIMUser.                                                               *)
(***************************************************************************)
\* SCIMUser.ATTR_MAP
ATTR_MAP ==
    ( <<"userName", NoneS, NoneS>> :> "username"
   @@ <<"name", "familyName", NoneS>> :> "last_name"
   @@ <<"familyName", NoneS, NoneS>> :> "last_name"
   @@ <<"name", "givenName", NoneS>> :> "first_name"
   @@ <<"givenName", NoneS, NoneS>> :> "first_name"
   @@ <<"active", NoneS, NoneS>> :> "is_active" )

\* sorted(q, key=lambda d: d.get('value')): a stable insertion sort
RECURSIVE InsertByValue(_, _)
InsertByValue(q, e) ==
    IF q = <<>> THEN <<e>>
    ELSE IF StrLess(e.value, q[1].value) THEN <<e>> \o q
    ELSE <<q[1]>> \o InsertByValue(Tail(q), e)

RECURSIVE SortedByValue(_)
SortedByValue(q) ==
    IF q = <<>> THEN <<>>
    ELSE InsertByValue(SortedByValue(SubSeq(q, 1, Len(q) - 1)), q[Len(q)])

\* SCIMUser.validate_email: the result of validating a selected address;
\* None (NoneS) and every string the validator refuses raise BadRequestError
validate_email(email) ==
    IF email # NoneS /\ EmailValid(email)
    THEN Ok
    ELSE Raise("BadRequestError", "Invalid email value", "")

\* the two sorted partitions are joined the wrong way round
SelectEmail_secondary_first(value) ==
    CASE value.t = "list" ->
            LET primary_emails ==
                    SortedByValue(SelectSeq(value.items, LAMBDA e : e.primary))
                secondary_emails ==
                    SortedByValue(SelectSeq(value.items, LAMBDA e : ~e.primary))
                emails == secondary_emails \o primary_emails
            IN IF emails # <<>>
               THEN [res |-> Ok, email |-> emails[1].value]
               ELSE [res |-> Raise("BadRequestError", "Invalid email value", ""),
                     email |-> NoneS]
      [] value.t = "dict" ->
            LET v == DictGet(value, "value") IN
            [res |-> Ok, email |-> IF Truthy(v) THEN Strip(v.str) ELSE Strip("")]
      [] OTHER -> [res |-> Ok, email |-> NoneS]

\* emails[0].get('value') if emails, else the raise
FirstEmail(emails) ==
    IF emails # <<>>
    THEN [res |-> Ok, email |-> emails[1].value]
    ELSE [res |-> Raise("BadRequestError", "Invalid email value", ""),
          email |-> NoneS]

\* (value.get('value') or '').strip()
StrippedValue(v) == IF Truthy(v) THEN Strip(v.str) ELSE Strip("")

\* the address parse_emails selects from a truthy value
SelectEmail(value) ==
    CASE value.t = "list" ->
            FirstEmail(SortedByValue(SelectSeq(value.items, LAMBDA e : e.primary))
                         \o SortedByValue(SelectSeq(value.items, LAMBDA e : ~e.primary)))
      [] value.t = "dict" -> [res |-> Ok, email |-> StrippedValue(DictGet(value, "value"))]
      [] OTHER -> [res |-> Ok, email |-> NoneS]

\* the selected address is assigned first and validated afterwards
StoreSelected_assign_first(obj, sel) ==
    IF sel.res.kind # "ok" THEN [res |-> sel.res, obj |-> obj]
    ELSE [res |-> validate_email(sel.email),
          obj |-> [obj EXCEPT !.email = PyStr(sel.email)]]

\* the end of parse_emails: validate the selected address, then assign it
StoreSelected(obj, sel) ==
    IF sel.res.kind # "ok" THEN [res |-> sel.res, obj |-> obj]
    ELSE IF validate_email(sel.email).kind # "ok"
    THEN [res |-> validate_email(sel.email), obj |-> obj]
    ELSE [res |-> Ok, obj |-> [obj EXCEPT !.email = PyStr(sel.email)]]

\* SCIMUser.parse_emails on the user object obj
parse_emails(obj, value) ==
    IF Truthy(value)
    THEN StoreSelected(obj, SelectEmail(value))
    ELSE [res |-> Ok, obj |-> obj]

\* the loop without its emails branch
RECURSIVE ReplacePairs_no_emails(_, _)
ReplacePairs_no_emails(obj, kv) ==
    IF kv = <<>> THEN [res |-> Ok, obj |-> obj]
    ELSE IF kv[1].key.k = "tuple" /\ kv[1].key.frag \in DOMAIN ATTR_MAP
    THEN ReplacePairs_no_emails([obj EXCEPT ![ATTR_MAP[kv[1].key.frag]] = kv[1].val],
                                Tail(kv))
    ELSE [res |-> Raise("NotImplementedError", "Not Implemented", ""), obj |-> obj]

\* the loop of SCIMUser.handle_replace over the (path, value) pairs
RECURSIVE ReplacePairs(_, _)
RECURSIVE ReplaceAfterEmails(_, _)
ReplacePairs(obj, kv) ==
    IF kv = <<>> THEN [res |-> Ok, obj |-> obj]
    ELSE IF kv[1].key.k = "tuple" /\ kv[1].key.frag \in DOMAIN ATTR_MAP
    THEN ReplacePairs([obj EXCEPT ![ATTR_MAP[kv[1].key.frag]] = kv[1].val], Tail(kv))
    ELSE IF kv[1].key = NPathTuple(<<"emails", NoneS, NoneS>>)
    THEN ReplaceAfterEmails(parse_emails(obj, kv[1].val), Tail(kv))
    ELSE [res |-> Raise("NotImplementedError", "Not Implemented", ""), obj |-> obj]

\* the loop goes on after parse_emails returned pe, or its raise leaves it
ReplaceAfterEmails(pe, kv) ==
    IF pe.res.kind # "ok" THEN pe ELSE ReplacePairs(pe.obj, kv)

\* self.obj.save() after the loop, which an exception of the loop skips;
\* saves counts the calls of obj.save() and persisted is the object as the
\* call wrote it
SavedAfter(rp) ==
    [res |-> rp.res, obj |-> rp.obj, saves |-> IF rp.res.kind = "ok" THEN 1 ELSE 0,
     persisted |-> rp.obj]

\* self.obj.save() is called before the loop, not after it
UserReplaceValue_save_first(obj, value) ==
    IF value.t # "dict"
    THEN [res |-> Raise("NotImplementedError",
                        "PATCH replace operation with value type is not implemented", ""),
          obj |-> obj, saves |-> 0]
    ELSE [res |-> ReplacePairs(obj, value.kv).res,
          obj |-> ReplacePairs(obj, value.kv).obj,
          saves |-> 1, persisted |-> obj]

\* SCIMUser.handle_replace from its second test on
UserReplaceValue(obj, value) ==
    IF value.t # "dict"
    THEN [res |-> Raise("NotImplementedError",
                        "PATCH replace operation with value type is not implemented", ""),
          obj |-> obj, saves |-> 0]
    ELSE SavedAfter(ReplacePairs(obj, value.kv))

\* the string is passed on without its path
UserHandleReplace_no_wrap(obj, path, value) == UserReplaceValue(obj, value)

\* SCIMUser.handle_replace
UserHandleReplace(obj, path, value) ==
    UserReplaceValue(obj, IF NPathTruthy(path) /\ value.t = "str"
                          THEN PyDict(<<[key |-> path, val |-> value]>>)
                          ELSE value)

\* SCIMMixin.handle_add, which SCIMUser inherits
MixinHandleAdd(obj, path, value) ==
    [res |-> Raise("NotImplementedError", "", ""), obj |-> obj, saves |-> 0]

\* SCIMMixin.handle_remove, which SCIMUser inherits
MixinHandleRemove(obj, path, value) ==
    [res |-> Raise("NotImplementedError", "", ""), obj |-> obj, saves |-> 0]

\* v or '' on a value read from the dict
OrEmpty(v) == IF Truthy(v) THEN v ELSE PyStr("")

\* from_dict after parse_emails returned pe: the password and the active
\* flag, which a raise of parse_emails skips
FromDictAfterEmails(d, pe) ==
    IF pe.res.kind # "ok"
    THEN [res |-> pe.res, obj |-> pe.obj, saves |-> 0]
    ELSE [res |-> Ok,
          obj |-> [pe.obj EXCEPT
                     !.password = IF Truthy(d.password)
                                  THEN [t |-> "hash", of |-> d.password.str]
                                  ELSE @,
                     !.is_active = IF d.active # PyNone THEN d.active ELSE @],
          saves |-> 0]

\* SCIMUser.from_dict (with SCIMMixin.from_dict, which it calls first).  d
\* gives d.get(...) of each key the method reads, None when the key is
\* absent; the fields assigned before parse_emails raises stay assigned.
UserFromDict(obj, d) ==
    FromDictAfterEmails(d,
        parse_emails([obj EXCEPT !.scim_external_id = OrEmpty(d.externalId),
                                 !.username = OrEmpty(d.userName),
                                 !.scim_username = OrEmpty(d.userName),
                                 !.first_name = OrEmpty(d.givenName),
                                 !.last_name = OrEmpty(d.familyName)],
                     IF d.emails = PyNone THEN PyList(<<>>) ELSE d.emails))

(***************************************************************************)
(* SCIMGroup.  The group object is its name and its user_set, the set of   *)
(* the ids of its members; user_set.add and user_set.remove write the      *)
(* relation at once.                                                       *)
(***************************************************************************)
\* [int(member.get('value')) for member in members], members = value or []:
\* iterating a non-empty str or dict yields elements without .get
\* (AttributeError), a True is not iterable (TypeError), and int() of a
\* string that is no number raises ValueError
MemberIds(value) ==
    IF ~Truthy(value) THEN [res |-> Ok, ids |-> <<>>]
    ELSE IF value.t \in {"str", "dict"}
    THEN [res |-> Raise("AttributeError", "object has no attribute 'get'", ""),
          ids |-> <<>>]
    ELSE IF value.t = "bool"
    THEN [res |-> Raise("TypeError", "'bool' object is not iterable", ""), ids |-> <<>>]
    ELSE IF \E i \in 1..Len(value.items) : ~IsIntString(value.items[i].value)
    THEN [res |-> Raise("ValueError", "invalid literal for int()", ""), ids |-> <<>>]
    ELSE [res |-> Ok,
          ids |-> [i \in 1..Len(value.items) |-> IntOf(value.items[i].value)]]

\* get_user_model().objects.filter(id__in=ids): the existing users among ids
UsersWithIds(ids) == Range(ids) \cap ExistingUserIds

\* the users are added before the count is compared
GroupHandleAdd_add_first(obj, path, value) ==
    IF path = NPathTuple(<<"members", NoneS, NoneS>>)
    THEN LET mi == MemberIds(value)
             users == UsersWithIds(mi.ids)
         IN IF mi.res.kind # "ok" THEN [res |-> mi.res, obj |-> obj, saves |-> 0]
            ELSE IF Len(mi.ids) # Cardinality(users)
            THEN [res |-> Raise("BadRequestError",
                                "Can not add a non-existent user to group", ""),
                  obj |-> [obj EXCEPT !.user_set = @ \cup users], saves |-> 0]
            ELSE [res |-> Ok,
                  obj |-> [obj EXCEPT !.user_set = @ \cup users],
                  saves |-> 0]
    ELSE [res |-> Raise("NotImplementedError", "", ""), obj |-> obj, saves |-> 0]

\* handle_add on the members path, once the ids are extracted
AddMembers(obj, mi) ==
    IF mi.res.kind # "ok" THEN [res |-> mi.res, obj |-> obj, saves |-> 0]
    ELSE IF Len(mi.ids) # Cardinality(UsersWithIds(mi.ids))
    THEN [res |-> Raise("BadRequestError",
                        "Can not add a non-existent user to group", ""),
          obj |-> obj, saves |-> 0]
    ELSE [res |-> Ok,
          obj |-> [obj EXCEPT !.user_set = @ \cup UsersWithIds(mi.ids)],
          saves |-> 0]

\* whatever the path, the value is taken as a members list
GroupHandleAdd_any_path(obj, path, value) == AddMembers(obj, MemberIds(value))

\* SCIMGroup.handle_add
GroupHandleAdd(obj, path, value) ==
    IF path = NPathTuple(<<"members", NoneS, NoneS>>)
    THEN AddMembers(obj, MemberIds(value))
    ELSE [res |-> Raise("NotImplementedError", "", ""), obj |-> obj, saves |-> 0]

\* removing a user who is no member is an error, as set.remove would have it
GroupHandleRemove_members_only(obj, path, value) ==
    IF path = NPathTuple(<<"members", NoneS, NoneS>>)
    THEN LET mi == MemberIds(value)
             users == UsersWithIds(mi.ids)
         IN IF mi.res.kind # "ok" THEN [res |-> mi.res, obj |-> obj, saves |-> 0]
            ELSE IF Len(mi.ids) # Cardinality(users)
            THEN [res |-> Raise("BadRequestError",
                                "Can not remove a non-existent user from group", ""),
                  obj |-> obj, saves |-> 0]
            ELSE IF ~(users \subseteq obj.user_set)
            THEN [res |-> Raise("KeyError", "", ""), obj |-> obj, saves |-> 0]
            ELSE [res |-> Ok,
                  obj |-> [obj EXCEPT !.user_set = @ \ users],
                  saves |-> 0]
    ELSE [res |-> Raise("NotImplementedError", "", ""), obj |-> obj, saves |-> 0]

\* handle_remove on the members path, once the ids are extracted
RemoveMembers(obj, mi) ==
    IF mi.res.kind # "ok" THEN [res |-> mi.res, obj |-> obj, saves |-> 0]
    ELSE IF Len(mi.ids) # Cardinality(UsersWithIds(mi.ids))
    THEN [res |-> Raise("BadRequestError",
                        "Can not remove a non-existent user from group", ""),
          obj |-> obj, saves |-> 0]
    ELSE [res |-> Ok,
          obj |-> [obj EXCEPT !.user_set = @ \ UsersWithIds(mi.ids)],
          saves |-> 0]

\* SCIMGroup.handle_remove
GroupHandleRemove(obj, path, value) ==
    IF path = NPathTuple(<<"members", NoneS, NoneS>>)
    THEN RemoveMembers(obj, MemberIds(value))
    ELSE [res |-> Raise("NotImplementedError", "", ""), obj |-> obj, saves |-> 0]

\* self.obj.save() of SCIMGroup.handle_replace, on the renamed group
SavedGroup(obj) == [res |-> Ok, obj |-> obj, saves |-> 1, persisted |-> obj]

\* the name is taken from the last element of the list
GroupHandleReplace_last_element(obj, path, value) ==
    IF path = NPathTuple(<<"name", NoneS, NoneS>>)
    THEN CASE value.t \in {"none", "bool"} ->
                [res |-> Raise("TypeError", "object is not subscriptable", ""),
                 obj |-> obj, saves |-> 0]
           [] value.t = "dict" ->
                [res |-> Raise("KeyError", "0", ""), obj |-> obj, saves |-> 0]
           [] value.t = "str" ->
                [res |-> IF value.str = ""
                         THEN Raise("IndexError", "string index out of range", "")
                         ELSE Raise("AttributeError", "'str' object has no attribute 'get'", ""),
                 obj |-> obj, saves |-> 0]
           [] value.t = "list" ->
                IF value.items = <<>>
                THEN [res |-> Raise("IndexError", "list index out of range", ""),
                      obj |-> obj, saves |-> 0]
                ELSE SavedGroup([obj EXCEPT
                                   !.name = PyStr(value.items[Len(value.items)].value)])
    ELSE [res |-> Raise("NotImplementedError", "", ""), obj |-> obj, saves |-> 0]

\* SCIMGroup.handle_replace: value[0].get('value') raises TypeError on None
\* and on a bool, IndexError on an empty list or str, AttributeError on a
\* character of a str, KeyError on a dict
GroupHandleReplace(obj, path, value) ==
    IF path = NPathTuple(<<"name", NoneS, NoneS>>)
    THEN CASE value.t \in {"none", "bool"} ->
                [res |-> Raise("TypeError", "object is not subscriptable", ""),
                 obj |-> obj, saves |-> 0]
           [] value.t = "dict" ->
                [res |-> Raise("KeyError", "0", ""), obj |-> obj, saves |-> 0]
           [] value.t = "str" ->
                [res |-> IF value.str = ""
                         THEN Raise("IndexError", "string index out of range", "")
                         ELSE Raise("AttributeError", "'str' object has no attribute 'get'", ""),
                 obj |-> obj, saves |-> 0]
           [] value.t = "list" ->
                IF value.items = <<>>
                THEN [res |-> Raise("IndexError", "list index out of range", ""),
                      obj |-> obj, saves |-> 0]
                ELSE SavedGroup([obj EXCEPT !.name = PyStr(value.items[1].value)])
    ELSE [res |-> Raise("NotImplementedError", "", ""), obj |-> obj, saves |-> 0]

(***************************************************************************)
(* SCIMMixin.handle_operations.                                            *)
(***************************************************************************)
\* constants.VALID_PATCH_OPS
VALID_PATCH_OPS == {"add", "remove", "replace"}

\* the op codes of the model and str.lower() on them
OpCodes == {"add", "remove", "replace", "Replace", "ADD", "frobnicate"}
Lower(s) ==
    CASE s = "Replace" -> "replace"
      [] s = "ADD" -> "add"
      [] OTHER -> s

\* SCIMUser treats an add as a replace
Dispatch_add_as_replace(adapter, op_code, obj, path, value) ==
    CASE adapter = "user" /\ op_code = "add" -> UserHandleReplace(obj, path, value)
      [] adapter = "user" /\ op_code = "remove" -> MixinHandleRemove(obj, path, value)
      [] adapter = "user" /\ op_code = "replace" -> UserHandleReplace(obj, path, value)
      [] adapter = "group" /\ op_code = "add" -> GroupHandleAdd(obj, path, value)
      [] adapter = "group" /\ op_code = "remove" -> GroupHandleRemove(obj, path, value)
      [] adapter = "group" /\ op_code = "replace" -> GroupHandleReplace(obj, path, value)

\* getattr(self, 'handle_' + op_code)(path, value, operation) on an adapter
\* of the given class
Dispatch(adapter, op_code, obj, path, value) ==
    CASE adapter = "user" /\ op_code = "add" -> MixinHandleAdd(obj, path, value)
      [] adapter = "user" /\ op_code = "remove" -> MixinHandleRemove(obj, path, value)
      [] adapter = "user" /\ op_code = "replace" -> UserHandleReplace(obj, path, value)
      [] adapter = "group" /\ op_code = "add" -> GroupHandleAdd(obj, path, value)
      [] adapter = "group" /\ op_code = "remove" -> GroupHandleRemove(obj, path, value)
      [] adapter = "group" /\ op_code = "replace" -> GroupHandleReplace(obj, path, value)

\* nothing was written by obj.save()
NotSaved == [t |-> "none"]

\* what an iteration that reaches no handler leaves: the object as it was
NoHandler(obj, pv, res) ==
    [res |-> res, obj |-> obj, saves |-> 0, persisted |-> NotSaved, handler |-> "",
     parsed |-> pv.res.kind = "ok",
     path |-> IF pv.res.kind = "ok" THEN pv.path ELSE NPathNone,
     value |-> IF pv.res.kind = "ok" THEN pv.value ELSE PyNone]

\* what an iteration whose handler returned or raised h leaves
Handled(op_code, pv, h) ==
    [res |-> h.res, obj |-> h.obj, saves |-> h.saves,
     persisted |-> IF h.saves = 0 THEN NotSaved ELSE h.persisted,
     handler |-> "handle_" \o op_code,
     parsed |-> TRUE, path |-> pv.path, value |-> pv.value]

\* the loop body of handle_operations after parse_path_and_value returned
\* or raised pv
HandleParsed(adapter, obj, op_code, pv) ==
    IF pv.res.kind # "ok"
    THEN NoHandler(obj, pv, pv.res)
    ELSE IF op_code \notin VALID_PATCH_OPS
    THEN NoHandler(obj, pv, Raise("BadRequestError", "Unknown PATCH op", ""))
    ELSE IF op_code = "remove" /\ ~NPathTruthy(pv.path)
    THEN NoHandler(obj, pv,
                   Raise("BadRequestError",
                         "\"path\" must be specified during \"remove\" PATCH calls",
                         "noTarget"))
    ELSE Handled(op_code, pv, Dispatch(adapter, op_code, obj, pv.path, pv.value))

\* the op code is compared as it was sent
HandleOperation_no_lower(adapter, obj, operation) ==
    HandleParsed(adapter, obj, operation.op,
                 parse_path_and_value(operation.path, operation.value))

\* one iteration of the loop of handle_operations, on operation
\* [op, path, value]; parsed tells that parse_path_and_value returned, path
\* and value are what it returned, and handler is the handle_* method that
\* ran, "" if none
HandleOperation(adapter, obj, operation) ==
    HandleParsed(adapter, obj, Lower(operation.op),
                 parse_path_and_value(operation.path, operation.value))

\* the for loop of handle_operations over a whole list of operations: the
\* first iteration that raises ends the call, and the mutations of the
\* iterations before it stay on obj
RECURSIVE HandleOperations(_, _, _)
RECURSIVE AfterOperation(_, _, _)
HandleOperations(adapter, obj, operations) ==
    IF operations = <<>> THEN [res |-> Ok, obj |-> obj, saves |-> 0]
    ELSE AfterOperation(adapter, Tail(operations),
                        HandleOperation(adapter, obj, operations[1]))

\* the loop after its first iteration left h, with the operations in rest
\* still to come
AfterOperation(adapter, rest, h) ==
    IF h.res.kind # "ok"
    THEN [res |-> h.res, obj |-> h.obj, saves |-> h.saves]
    ELSE [HandleOperations(adapter, h.obj, rest) EXCEPT !.saves = @ + h.saves]

(***************************************************************************)
(* State.                                                                  *)
(*   user   the Django user object behind the SCIMUser adapter             *)
(*   group  the Django group object behind the SCIMGroup adapter           *)
(*   cur    the call in progress: its adapter ("none" when no call is      *)
(*          running), the number of loop iterations of handle_operations   *)
(*          begun, and whether control stands right after a step           *)
(*   last   the step control stands after: its input, the normalized path  *)
(*          and value (if parsed), the handler that ran, the result, the   *)
(*          number of obj.save() calls and the object as the call wrote    *)
(*          it, and the objects as they were before the step; blank once   *)
(*          control has moved on                                           *)
(***************************************************************************)
NoOperation == [op |-> "", path |-> NoPath, value |-> PyNone]
NoDict ==
    [externalId |-> PyNone, userName |-> PyNone, givenName |-> PyNone,
     familyName |-> PyNone, emails |-> PyNone, password |-> PyNone,
     active |-> PyNone]

NoLast(u, g) ==
    [kind |-> "none", adapter |-> "none", pos |-> 0,
     operation |-> NoOperation, d |-> NoDict,
     parsed |-> FALSE, path |-> NPathNone, value |-> PyNone, handler |-> "",
     res |-> Ok, saves |-> 0, persisted |-> NotSaved, user |-> u, group |-> g]

InitUser ==
    [scim_external_id |-> PyStr(""), username |-> PyStr("alice"),
     scim_username |-> PyStr("alice"), first_name |-> PyStr(""),
     last_name |-> PyStr(""), email |-> PyStr("old@x.com"), password |-> PyNone,
     is_active |-> PyBool(TRUE)]

InitGroup == [name |-> PyStr("admins"), user_set |-> {}]

Idle == [adapter |-> "none", pos |-> 0, stepped |-> FALSE]

\* the adapter's handle_operations stands at the head of its loop: a new
\* call, or the call in progress after an iteration that returned
AtLoopHead(adapter) ==
    /\ ~cur.stepped
    /\ cur.adapter \in {"none", adapter}
    /\ cur.pos < MaxOps

\* the state after an iteration on operation that left h
AfterStep(adapter, operation, h) ==
    /\ user' = IF adapter = "user" THEN h.obj ELSE user
    /\ group' = IF adapter = "group" THEN h.obj ELSE group
    /\ cur' = [cur EXCEPT !.adapter = adapter, !.pos = @ + 1, !.stepped = TRUE]
    /\ last' = [kind |-> "patch", adapter |-> adapter, pos |-> cur.pos,
                operation |-> operation, d |-> NoDict,
                parsed |-> h.parsed,
                path |-> h.path, value |-> h.value, handler |-> h.handler,
                res |-> h.res, saves |-> h.saves, persisted |-> h.persisted,
                user |-> user, group |-> group]

\* one iteration of handle_operations on the adapter, from the loop head
Step(adapter, operation) ==
    AfterStep(adapter, operation,
              HandleOperation(adapter, IF adapter = "user" THEN user ELSE group,
                              operation))

\* the handler returned and the list holds another operation: the for
\* statement goes on to it
Continue ==
    /\ cur.stepped
    /\ last.kind = "patch"
    /\ last.res.kind = "ok"
    /\ cur.pos < MaxOps
    /\ cur' = [cur EXCEPT !.stepped = FALSE]
    /\ last' = NoLast(user, group)
    /\ UNCHANGED <<user, group>>

\* the call returns to its caller: the list of operations is exhausted, or
\* from_dict is done
Return ==
    /\ cur.stepped
    /\ last.res.kind = "ok"
    /\ cur' = Idle
    /\ last' = NoLast(user, group)
    /\ UNCHANGED <<user, group>>

\* the exception leaves the call and the object is put back as it was when
\* the call began
Propagate_rolled_back ==
    /\ cur.stepped
    /\ last.res.kind # "ok"
    /\ cur' = Idle
    /\ user' = IF cur.adapter = "user" THEN cur.start ELSE user
    /\ group' = IF cur.adapter = "group" THEN cur.start ELSE group
    /\ last' = NoLast(user', group')

\* the exception of the step leaves the call; nothing catches it
Propagate ==
    /\ cur.stepped
    /\ last.res.kind # "ok"
    /\ cur' = Idle
    /\ last' = NoLast(user, group)
    /\ UNCHANGED <<user, group>>

\* the state after from_dict(d) left h
AfterFromDict(d, h) ==
    /\ user' = h.obj
    /\ last' = [kind |-> "from_dict", adapter |-> "user", pos |-> 0,
                operation |-> NoOperation, d |-> d,
                parsed |-> FALSE,
                path |-> NPathNone, value |-> PyNone, handler |-> "from_dict",
                res |-> h.res, saves |-> h.saves, persisted |-> NotSaved,
                user |-> user, group |-> group]
    /\ cur' = [adapter |-> "user", pos |-> 0, stepped |-> TRUE]
    /\ UNCHANGED group

\* SCIMUser.from_dict(d), outside any handle_operations call
FromDictOf(d) == AfterFromDict(d, UserFromDict(user, d))

(***************************************************************************)
(* Inputs.                                                                 *)
(***************************************************************************)
\* the dicts of at most MaxKeys pairs with distinct keys from keys and
\* values from values
DictsOver(keys, values) ==
    {PyDict(q) : q \in {s \in BoundedSeq([key : {RawKey(k) : k \in keys}, val : values], MaxKeys) :
                          \A i, j \in 1..Len(s) : i # j => s[i].key # s[j].key}}

\* the operations given to the dispatcher: every op code and path with a
\* value of each type
OpPaths == {NoPath} \cup (PathStrings \ {"name.givenName"})
SubValues == {PyStr("bob"), PyBool(FALSE)}
DictKeys == {"userName", "active", "emails", "members", EmptyPathString}
OpValues ==
    {PyNone, PyStr("bob"), PyList(<<>>), PyList(<<Item("1", FALSE)>>),
     PyList(<<Item("a@x.com", TRUE)>>)}
      \cup DictsOver(DictKeys, SubValues)
Operations == [op : OpCodes, path : OpPaths, value : OpValues]

(***************************************************************************)
(* Spec: PATCH calls on the SCIMUser adapter.                              *)
(***************************************************************************)
Init ==
    /\ user = InitUser
    /\ group = InitGroup
    /\ cur = Idle
    /\ last = NoLast(user, group)

UserStep == AtLoopHead("user") /\ \E operation \in Operations : Step("user", operation)

Next == UserStep \/ Continue \/ Return \/ Propagate

Spec == Init /\ [][Next]_vars

(***************************************************************************)
(* SpecGroup: PATCH calls on the SCIMGroup adapter, with the operations of *)
(* Spec and with add and remove of every members list of at most           *)
(* MaxMembers references.                                                  *)
(***************************************************************************)
MemberStrings == {"1", "01", "2", "999", "abc"}
MemberLists ==
    {PyList(q) : q \in BoundedSeq({Item(s, FALSE) : s \in MemberStrings}, MaxMembers)}
MemberOperations == [op : {"add", "remove"}, path : {"members"}, value : MemberLists]

GroupStep ==
    AtLoopHead("group")
      /\ \E operation \in Operations \cup MemberOperations : Step("group", operation)

NextGroup == GroupStep \/ Continue \/ Return \/ Propagate

SpecGroup == Init /\ [][NextGroup]_vars

(***************************************************************************)
(* SpecEmail: the e-mail selection of SCIMUser, reached by a replace and   *)
(* by from_dict, with every emails list of at most MaxEmails entries.      *)
(***************************************************************************)
EmailStrings == {"NOPE", "a@x.com", "b@x.com", "z@x.com"}
EmailLists ==
    {PyList(q) : q \in BoundedSeq({Item(s, p) : s \in EmailStrings, p \in BOOLEAN}, MaxEmails)}
\* the other values a client sends as emails: nothing, a string, and the
\* single dict some identity providers send
EmailValues ==
    EmailLists \cup
    {PyNone, PyStr("a@x.com"), PyDict(<<>>),
     PyDict(<<[key |-> RawKey("value"), val |-> PyStr(" a@x.com ")]>>),
     PyDict(<<[key |-> RawKey("value"), val |-> PyStr("NOPE")]>>),
     PyDict(<<[key |-> RawKey("type"), val |-> PyStr("bob")]>>)}
EmailOperations ==
    [op : {"replace"}, path : {"emails"}, value : EmailValues]
      \cup [op : {"replace"}, path : {NoPath},
            value : {PyDict(<<[key |-> RawKey("emails"), val |-> e]>>) : e \in EmailValues}]

FullDict ==
    [externalId |-> PyStr("bob"), userName |-> PyStr("bob"),
     givenName |-> PyStr("bob"), familyName |-> PyStr("bob"),
     emails |-> PyNone, password |-> PyStr("bob"), active |-> PyBool(FALSE)]
FromDictInputs == {[b EXCEPT !.emails = e] : b \in {NoDict, FullDict}, e \in EmailValues}

EmailStep ==
    AtLoopHead("user") /\ \E operation \in EmailOperations : Step("user", operation)

FromDict == cur = Idle /\ \E d \in FromDictInputs : FromDictOf(d)

NextEmail == EmailStep \/ FromDict \/ Continue \/ Return \/ Propagate

SpecEmail == Init /\ [][NextEmail]_vars

(***************************************************************************)
(* SpecPaths: PATCH calls on both adapters, with every op code and every   *)
(* path of the model and a value of each shape.                            *)
(***************************************************************************)
PathValues ==
    {PyNone, PyStr("bob"), PyDict(<<>>),
     PyList(<<Item("1", FALSE)>>),
     PyList(<<Item("staff", FALSE), Item("admins", FALSE)>>),
     PyDict(<<[key |-> RawKey("userName"), val |-> PyStr("bob")]>>),
     PyDict(<<[key |-> RawKey("userName"), val |-> PyStr("abc")],
              [key |-> RawKey("members"), val |-> PyStr("bob")]>>),
     PyDict(<<[key |-> RawKey(ComplexPathString), val |-> PyStr("bob")]>>)}
PathOperations == [op : OpCodes, path : OpPaths, value : PathValues]

PathStep ==
    \E adapter \in {"user", "group"} :
        AtLoopHead(adapter) /\ \E operation \in PathOperations : Step(adapter, operation)

NextPaths == PathStep \/ Continue \/ Return \/ Propagate

SpecPaths == Init /\ [][NextPaths]_vars

(***************************************************************************)
(* SpecRequest: handle_operations called with a whole list of operations.  *)
(* The call in progress keeps, besides its position, the list it was given *)
(* (cur.request) and the adapter's object as it was when the call began    *)
(* (cur.start).                                                            *)
(***************************************************************************)
UserRequestOps ==
    {[op |-> "replace", path |-> "userName", value |-> PyStr("bob")],
     [op |-> "Replace", path |-> "userName", value |-> PyStr("staff")],
     [op |-> "replace", path |-> NoPath,
      value |-> PyDict(<<[key |-> RawKey("active"), val |-> PyBool(FALSE)]>>)],
     [op |-> "replace", path |-> NoPath,
      value |-> PyDict(<<[key |-> RawKey("userName"), val |-> PyStr("admins")],
                         [key |-> RawKey("active"), val |-> PyBool(TRUE)]>>)],
     [op |-> "replace", path |-> NoPath,
      value |-> PyDict(<<[key |-> RawKey("emails"),
                          val |-> PyList(<<Item("a@x.com", TRUE)>>)]>>)],
     [op |-> "replace", path |-> NoPath,
      value |-> PyDict(<<[key |-> RawKey("userName"), val |-> PyStr("abc")],
                         [key |-> RawKey("members"), val |-> PyStr("bob")]>>)],
     [op |-> "replace", path |-> "members", value |-> PyStr("bob")],
     [op |-> "add", path |-> "userName", value |-> PyStr("bob")],
     [op |-> "remove", path |-> NoPath, value |-> PyNone],
     [op |-> "frobnicate", path |-> "userName", value |-> PyStr("bob")]}

GroupRequestOps ==
    {[op |-> "add", path |-> "members", value |-> PyList(<<Item("1", FALSE)>>)],
     [op |-> "add", path |-> "members",
      value |-> PyList(<<Item("1", FALSE), Item("2", FALSE)>>)],
     [op |-> "remove", path |-> "members", value |-> PyList(<<Item("1", FALSE)>>)],
     [op |-> "replace", path |-> "name", value |-> PyList(<<Item("staff", FALSE)>>)],
     [op |-> "add", path |-> "members",
      value |-> PyList(<<Item("2", FALSE), Item("999", FALSE)>>)],
     [op |-> "replace", path |-> "members", value |-> PyList(<<Item("1", FALSE)>>)],
     [op |-> "remove", path |-> NoPath, value |-> PyNone]}

RequestOps(adapter) == IF adapter = "user" THEN UserRequestOps ELSE GroupRequestOps

\* a handle_operations call is in progress on a list of operations
InRequest == cur.adapter # "none"

\* the adapter's object
ObjectOf(adapter) == IF adapter = "user" THEN user ELSE group

\* the list is walked from its end
NextOperation_reversed(request, pos) == request[Len(request) - pos]

\* the operation the for statement takes after pos iterations
NextOperation(request, pos) == request[pos + 1]

\* adapter.handle_operations(request) is called
Begin(adapter, request) ==
    /\ cur' = [adapter |-> adapter, pos |-> 0, stepped |-> FALSE,
               request |-> request, start |-> ObjectOf(adapter)]
    /\ last' = NoLast(user, group)
    /\ UNCHANGED <<user, group>>

RequestBegin ==
    cur = Idle /\ \E adapter \in {"user", "group"} :
                     \E request \in BoundedSeq(RequestOps(adapter), MaxOps) :
                         Begin(adapter, request)

\* the for statement takes the next operation of the list: one iteration
RequestStep ==
    /\ InRequest
    /\ ~cur.stepped
    /\ cur.pos < Len(cur.request)
    /\ Step(cur.adapter, NextOperation(cur.request, cur.pos))

\* the handler returned and the list holds another operation
RequestContinue ==
    /\ InRequest
    /\ cur.stepped
    /\ last.res.kind = "ok"
    /\ cur.pos < Len(cur.request)
    /\ cur' = [cur EXCEPT !.stepped = FALSE]
    /\ last' = NoLast(user, group)
    /\ UNCHANGED <<user, group>>

\* the list is exhausted: handle_operations returns
RequestReturn ==
    /\ InRequest
    /\ cur.stepped => last.res.kind = "ok"
    /\ cur.pos = Len(cur.request)
    /\ cur' = Idle
    /\ last' = NoLast(user, group)
    /\ UNCHANGED <<user, group>>

NextRequest == RequestBegin \/ RequestStep \/ RequestContinue \/ RequestReturn \/ Propagate

SpecRequest == Init /\ [][NextRequest]_vars

(***************************************************************************)
(* Properties.                                                             *)
(***************************************************************************)
\* control stands right after an iteration of handle_operations
AfterPatch == last.kind = "patch"

\* the objects are as they were before the step
ObjectsUnchanged == user = last.user /\ group = last.group

\* C1: every operation whose lower-cased op code is not add, remove or
\* replace fails with BadRequest "Unknown PATCH op" and reaches no handler,
\* whatever its path and value, an operation with no path and no value
\* included.
C1_UnknownOpIsBadRequest ==
    (AfterPatch /\ Lower(last.operation.op) \notin VALID_PATCH_OPS)
        => /\ last.res = Raise("BadRequestError", "Unknown PATCH op", "")
           /\ last.handler = ""

\* C2: every remove operation with no path fails with BadRequest of
\* scim_type noTarget before handle_remove is reached, whatever its value,
\* and leaves the resource as it was.
C2_RemoveWithoutPathIsNoTarget ==
    (AfterPatch /\ Lower(last.operation.op) = "remove"
                /\ last.operation.path = NoPath)
        => /\ last.res.kind = "BadRequestError"
           /\ last.res.scim_type = "noTarget"
           /\ last.handler = ""
           /\ ObjectsUnchanged

\* the path strings split_path is given in the step: the operation's path,
\* or the keys of its path-less mapping
SplitInputs ==
    IF last.operation.path = NoPath /\ last.operation.value.t = "dict"
    THEN {p.key.str : p \in Range(last.operation.value.kv)}
    ELSE {last.operation.path} \ {NoPath}

\* C3: when the parse of a path yields no fragment, split_path fails with
\* the bad-request error "No attribute path found in request" and with no
\* other failure.
C3_NoFragmentIsBadRequest ==
    (AfterPatch /\ (\E p \in SplitInputs : Len(AttrPaths(p)) = 0))
        => last.res = Raise("BadRequestError", "No attribute path found in request", "")

\* what split_path is to return for a path of at least one fragment
ExpectedSplit(p) ==
    IF Len(AttrPaths(p)) = 1
    THEN [k |-> "tuple", frag |-> AttrPaths(p)[1]]
    ELSE [k |-> "complex", path |-> p, attr_paths |-> AttrPaths(p)]

\* C4: split_path returns the single fragment of a path that parses to one
\* fragment, and a ComplexAttrPath with the path string and all fragments
\* of a path that parses to several; never the one for the other.  Seen at
\* the operation's path and at each key of a path-less mapping.
C4_SplitPathResult ==
    (AfterPatch /\ last.parsed)
        => /\ last.operation.path # NoPath
               => last.path = ExpectedSplit(last.operation.path)
           /\ (last.operation.path = NoPath /\ last.operation.value.t = "dict")
               => /\ Len(last.value.kv) = Len(last.operation.value.kv)
                  /\ \A i \in 1..Len(last.value.kv) :
                        last.value.kv[i].key
                            = ExpectedSplit(last.operation.value.kv[i].key.str)

C4_Witness ==
    /\ AfterPatch /\ last.parsed
    /\ last.operation.path = ComplexPathString
    /\ last.path.k = "complex"
    /\ Len(last.path.attr_paths) = 2

\* control stands after the SCIMGroup handler of the name, called with the
\* members path and a list
AfterMembers(handler) ==
    /\ AfterPatch
    /\ last.adapter = "group"
    /\ last.handler = handler
    /\ last.path = NPathTuple(<<"members", NoneS, NoneS>>)
    /\ last.value.t = "list"

\* every reference of the members list carries a user id
AllAreIds == \A i \in 1..Len(last.value.items) : IsIntString(last.value.items[i].value)

\* the user ids the members list names
ListedIds == {IntOf(last.value.items[i].value) : i \in 1..Len(last.value.items)}

\* no user is named by two references of the members list
NoUserTwice ==
    \A i, j \in 1..Len(last.value.items) :
        i # j => IntOf(last.value.items[i].value) # IntOf(last.value.items[j].value)

\* C5: a Group add or remove on members whose list holds an id of no
\* existing user (other ids of the list may exist) fails with BadRequest and
\* leaves the membership set as it was; no add or remove that fails has
\* changed the membership.
C5_MembersAllOrNothing ==
    /\ \A h \in {"handle_add", "handle_remove"} :
          (AfterMembers(h) /\ AllAreIds /\ ListedIds \ ExistingUserIds # {})
              => /\ last.res.kind = "BadRequestError"
                 /\ last.res.detail =
                        (IF h = "handle_add"
                         THEN "Can not add a non-existent user to group"
                         ELSE "Can not remove a non-existent user from group")
                 /\ group = last.group
    /\ (AfterPatch /\ last.adapter = "group"
                   /\ last.handler \in {"handle_add", "handle_remove"}
                   /\ last.res.kind # "ok")
          => group.user_set = last.group.user_set

C5_Witness ==
    /\ AfterMembers("handle_add")
    /\ last.value.items = <<Item("1", FALSE), Item("999", FALSE)>>
    /\ last.group.user_set = {2}
    /\ last.res.kind = "BadRequestError"
    /\ group.user_set = {2}

\* C6: Group add on members is idempotent: for every group state and every
\* list of ids of existing users the add succeeds, and the same add applied
\* again succeeds and leaves the membership as the first left it.
C6_AddIdempotent ==
    (AfterMembers("handle_add") /\ AllAreIds /\ ListedIds \subseteq ExistingUserIds)
        => /\ last.res.kind = "ok"
           /\ LET again == GroupHandleAdd(group, last.path, last.value)
              IN /\ again.res.kind = "ok"
                 /\ again.obj.user_set = group.user_set

\* C7: a Group remove on members naming an existing user who is not a
\* member raises no error and leaves the membership unchanged: the outcome
\* of a remove does not depend on who is a member, a list of existing
\* users, each named once, is removed without error, and a remove that
\* succeeds leaves the previous membership minus the listed users.
C7_RemoveOfNonMember ==
    AfterMembers("handle_remove")
        => /\ last.res.kind = "ok"
                => /\ AllAreIds
                   /\ group.user_set = last.group.user_set \ ListedIds
                   /\ group.name = last.group.name
           /\ (AllAreIds /\ ListedIds \subseteq ExistingUserIds /\ NoUserTwice)
                => last.res.kind = "ok"
           /\ (AllAreIds /\ ListedIds \subseteq ExistingUserIds /\ NoUserTwice
                         /\ ListedIds \cap last.group.user_set = {})
                => (last.res.kind = "ok" /\ group = last.group)

C7_Witness ==
    /\ AfterMembers("handle_remove")
    /\ last.value.items = <<Item("1", FALSE)>>
    /\ last.group.user_set = {2}
    /\ last.res.kind = "ok"
    /\ group.user_set = {2}

\* C8: a Group add or remove on members whose list names the same existing
\* user more than once succeeds, with the effect of the list without the
\* repetitions.
C8_DuplicatesTolerated ==
    \A h \in {"handle_add", "handle_remove"} :
        (AfterMembers(h) /\ AllAreIds /\ ListedIds \subseteq ExistingUserIds
                         /\ ~NoUserTwice)
            => /\ last.res.kind = "ok"
               /\ group.user_set = (IF h = "handle_add"
                                    THEN last.group.user_set \cup ListedIds
                                    ELSE last.group.user_set \ ListedIds)

\* the step called parse_emails: from_dict always does, and a replace with
\* no path and the one-key mapping {"emails": value} does
ParseEmailsCalled ==
    \/ last.kind = "from_dict"
    \/ /\ AfterPatch /\ last.adapter = "user" /\ last.handler = "handle_replace"
       /\ last.operation.path = NoPath
       /\ last.operation.value.t = "dict"
       /\ Len(last.operation.value.kv) = 1
       /\ last.operation.value.kv[1].key = RawKey("emails")

\* the value parse_emails was called with; d.get('emails', []) is the
\* empty list when the dict has no emails
ParseEmailsArg ==
    IF last.kind = "from_dict"
    THEN (IF last.d.emails = PyNone THEN PyList(<<>>) ELSE last.d.emails)
    ELSE last.operation.value.kv[1].val

InvalidEmail == Raise("BadRequestError", "Invalid email value", "")

\* C9: e-mail selection given an empty list fails with BadRequest "Invalid
\* email value", through a User replace on emails and through from_dict,
\* and the stored email is not changed.
C9_EmptyEmailsIsBadRequest ==
    (ParseEmailsCalled /\ ParseEmailsArg = PyList(<<>>))
        => /\ last.res = InvalidEmail
           /\ user.email = last.user.email

\* the smallest value among the primary entries if there is one, else the
\* smallest value among the entries
SmallestPreferred(items) ==
    LET primary == {i \in 1..Len(items) : items[i].primary}
        from == IF primary # {} THEN primary ELSE 1..Len(items)
        values == {items[i].value : i \in from}
    IN CHOOSE v \in values : \A w \in values : ~StrLess(w, v)

\* C10 as stated: e-mail selection over a non-empty list stores the smallest
\* value among the primary entries if any entry is primary, else the
\* smallest among the non-primary entries.
C10_StoresSmallestPreferred ==
    (ParseEmailsCalled /\ ParseEmailsArg.t = "list" /\ ParseEmailsArg.items # <<>>)
        => user.email = PyStr(SmallestPreferred(ParseEmailsArg.items))

\* C10 as amended: e-mail selection over a non-empty list selects the
\* smallest value among the primary entries if any entry is primary, else
\* the smallest among the non-primary entries; if the selected value is a
\* valid address the step succeeds and it is the one stored email, otherwise
\* the step fails with BadRequest "Invalid email value" and the stored email
\* is unchanged.
C10_SelectsSmallestPreferred ==
    (ParseEmailsCalled /\ ParseEmailsArg.t = "list" /\ ParseEmailsArg.items # <<>>)
        => LET email == SmallestPreferred(ParseEmailsArg.items) IN
           IF EmailValid(email)
           THEN last.res.kind = "ok" /\ user.email = PyStr(email)
           ELSE last.res = InvalidEmail /\ user.email = last.user.email

C10_Witness ==
    /\ ParseEmailsCalled
    /\ ParseEmailsArg =
          PyList(<<Item("b@x.com", FALSE), Item("a@x.com", TRUE), Item("z@x.com", TRUE)>>)
    /\ last.user.email = PyStr("old@x.com")
    /\ user.email = PyStr("a@x.com")

\* control stands after an iteration on a User replace with no path and a
\* mapping value
AfterMappingReplace ==
    /\ AfterPatch /\ last.adapter = "user"
    /\ Lower(last.operation.op) = "replace"
    /\ last.operation.path = NoPath
    /\ last.operation.value.t = "dict"

\* one replace operation per key of the mapping, in the mapping's order,
\* with the key as path and the sub-value as value
PerKeyOperations(kv) ==
    [i \in 1..Len(kv) |-> [op |-> "replace", path |-> kv[i].key.str, value |-> kv[i].val]]

\* every key of the mapping names an attribute: it parses to one fragment
KeysAreAttributes(kv) == \A i \in 1..Len(kv) : Len(AttrPaths(kv[i].key.str)) = 1

\* the mapping form and the per-key form end alike: the same result, the
\* same user
SameAsPerKey ==
    LET seq == HandleOperations("user", last.user,
                                PerKeyOperations(last.operation.value.kv))
    IN /\ last.res = seq.res
       /\ user = seq.obj

KeysAreDistinct(kv) ==
    \A i, j \in 1..Len(kv) :
        i # j => AttrPaths(kv[i].key.str) # AttrPaths(kv[j].key.str)

AfterEmailsPathReplace(type) ==
    /\ AfterPatch /\ last.adapter = "user"
    /\ Lower(last.operation.op) = "replace"
    /\ last.operation.path = "emails"
    /\ last.operation.value.t = type

\* control stands after an iteration on a path-less User replace
\* {"emails": list} with a non-empty list
AfterEmailsPairReplace ==
    /\ AfterPatch /\ ParseEmailsCalled
    /\ ParseEmailsArg.t = "list"
    /\ ParseEmailsArg.items # <<>>

\* C12 as stated: a User replace given with path "emails" and a non-empty
\* list of entries stores the entry the selection rule chooses (when it is a
\* valid address) and saves the user.
C12_EmailsPathListStored ==
    (AfterEmailsPathReplace("list") /\ last.operation.value.items # <<>>
        /\ EmailValid(SmallestPreferred(last.operation.value.items)))
        => /\ last.res.kind = "ok"
           /\ user.email = PyStr(SmallestPreferred(last.operation.value.items))
           /\ last.saves = 1

\* C12 as amended: a (path, value) pair with the emails path is delegated to
\* the selection rule: the path-less replace {"emails": list} with a
\* non-empty list stores the chosen entry in email, changes no other field
\* and saves once, or fails with BadRequest "Invalid email value" without a
\* change or a save when the chosen entry is no valid address; the replace
\* with path "emails" and a string is delegated too and fails that way,
\* while the replace with path "emails" and a list fails with
\* NotImplemented, unchanged and unsaved.
C12_EmailsPairDelegated ==
    /\ AfterEmailsPairReplace
          => IF EmailValid(SmallestPreferred(ParseEmailsArg.items))
             THEN /\ last.res.kind = "ok"
                  /\ user = [last.user EXCEPT
                               !.email = PyStr(SmallestPreferred(ParseEmailsArg.items))]
                  /\ last.saves = 1
             ELSE /\ last.res = InvalidEmail
                  /\ user = last.user
                  /\ last.saves = 0
    /\ AfterEmailsPathReplace("str")
          => /\ last.res = InvalidEmail
             /\ user = last.user
             /\ last.saves = 0
    /\ AfterEmailsPathReplace("list")
          => /\ last.res.kind = "NotImplementedError"
             /\ user = last.user
             /\ last.saves = 0

C12_Witness ==
    /\ AfterEmailsPairReplace
    /\ ParseEmailsArg = PyList(<<Item("b@x.com", FALSE), Item("a@x.com", TRUE)>>)
    /\ last.user.email = PyStr("old@x.com")
    /\ user.email = PyStr("a@x.com")
    /\ last.saves = 1

\* control stands after an iteration on the User adapter whose operation
\* has the op code (in any letter case) and resolved to a path
AfterUserOp(op_code) ==
    /\ AfterPatch /\ last.adapter = "user"
    /\ Lower(last.operation.op) = op_code
    /\ last.parsed
    /\ NPathTruthy(last.path)

\* C13: every add and every remove with a path that resolves, applied to a
\* User, reaches its handler and fails with NotImplemented, leaving the user
\* unmodified and unsaved; only an iteration on a replace changes a field of
\* the user.
C13_UserAddRemoveNotImplemented ==
    /\ \A op_code \in {"add", "remove"} :
          AfterUserOp(op_code)
              => /\ last.res.kind = "NotImplementedError"
                 /\ last.handler = "handle_" \o op_code
                 /\ user = last.user
                 /\ last.saves = 0
    /\ (AfterPatch /\ last.adapter = "user" /\ user # last.user)
          => /\ Lower(last.operation.op) = "replace"
             /\ last.handler = "handle_replace"

C13_Witness ==
    /\ AfterUserOp("add")
    /\ last.operation = [op |-> "ADD", path |-> "userName", value |-> PyStr("bob")]
    /\ last.res.kind = "NotImplementedError"
    /\ user.username = PyStr("alice")

\* the call in progress stands between iterations or after one that
\* returned: no operation of it has failed
NoneFailed == InRequest /\ (cur.stepped => last.res.kind = "ok")

\* every operation of the list is a replace of userName by a string
AllReplaceUserName(request) ==
    \A i \in 1..Len(request) :
        /\ Lower(request[i].op) = "replace"
        /\ request[i].path = "userName"
        /\ request[i].value.t = "str"

\* C14: handle_operations applies the operations of its list in list order,
\* one at a time: as long as none has failed, the resource is what the
\* operations begun so far leave when each is applied, in list order, to the
\* resource the one before it left; so at the return of a list of replaces
\* of userName the user name is the value of the last one.
C14_AppliedInListOrder ==
    /\ NoneFailed
          => LET seq == HandleOperations(cur.adapter, cur.start,
                                         SubSeq(cur.request, 1, cur.pos))
             IN /\ seq.res.kind = "ok"
                /\ ObjectOf(cur.adapter) = seq.obj
    /\ (NoneFailed /\ cur.adapter = "user" /\ cur.pos = Len(cur.request)
                   /\ cur.pos > 0 /\ AllReplaceUserName(cur.request))
          => user.username = cur.request[Len(cur.request)].value

C14_Witness ==
    /\ NoneFailed /\ cur.stepped
    /\ cur.request =
          <<[op |-> "replace", path |-> "userName", value |-> PyStr("bob")],
            [op |-> "Replace", path |-> "userName", value |-> PyStr("staff")]>>
    /\ cur.pos = 2
    /\ last.user.username = PyStr("bob")
    /\ user.username = PyStr("staff")

\* an iteration of the call in progress has raised
Failed == InRequest /\ cur.stepped /\ last.res.kind # "ok"

\* the fields of the user that the pairs of a replace value assign or hand
\* to the e-mail selection
AssignedFields(value) ==
    IF value.t # "dict" THEN {}
    ELSE {ATTR_MAP[q.key.frag] :
            q \in {p \in Range(value.kv) : p.key.k = "tuple" /\ p.key.frag \in DOMAIN ATTR_MAP}}
         \cup {"email" : q \in {p \in Range(value.kv) :
                                  p.key = NPathTuple(<<"emails", NoneS, NoneS>>)}}

AfterHandler(adapter, handler) ==
    AfterPatch /\ last.adapter = adapter /\ last.handler = handler

\* C16: a User replace that succeeds calls save once, after the last field
\* assignment: what it writes is the user as the operation leaves it.  A
\* User replace that fails calls save not at all, whatever its earlier
\* pairs assigned.  A Group add or remove never calls save.
C16_ReplaceSavesAfterAllPairs ==
    /\ AfterHandler("user", "handle_replace")
          => IF last.res.kind = "ok"
             THEN last.saves = 1 /\ last.persisted = user
             ELSE last.saves = 0 /\ last.persisted = NotSaved
    /\ \A h \in {"handle_add", "handle_remove"} :
          AfterHandler("group", h) => last.saves = 0 /\ last.persisted = NotSaved

C16_Witness ==
    /\ AfterHandler("user", "handle_replace")
    /\ last.operation.value =
          PyDict(<<[key |-> RawKey("userName"), val |-> PyStr("abc")],
                   [key |-> RawKey("members"), val |-> PyStr("bob")]>>)
    /\ last.res.kind = "NotImplementedError"
    /\ last.user.username # PyStr("abc")
    /\ user.username = PyStr("abc")
    /\ last.saves = 0

\* the (path, value) pairs the loop of SCIMUser.handle_replace goes over:
\* those of the mapping value, or the one pair made of the path and a
\* string value
ReplacePairsOf(path, value) ==
    IF value.t = "dict" THEN value.kv
    ELSE IF value.t = "str" /\ NPathTruthy(path) THEN <<[key |-> path, val |-> value]>>
    ELSE <<>>

\* the path of a pair is a key of the User ATTR_MAP
InAttrMap(key) == key.k = "tuple" /\ key.frag \in DOMAIN ATTR_MAP

\* the path of a pair is one SCIMUser.handle_replace supports
SupportedByUserReplace(key) ==
    InAttrMap(key) \/ key = NPathTuple(<<"emails", NoneS, NoneS>>)

\* some pair has an unsupported path, and the pairs before the first such
\* pair are plain assignments
ReachesUnsupportedPair(pairs) ==
    \E i \in 1..Len(pairs) :
        /\ ~SupportedByUserReplace(pairs[i].key)
        /\ \A j \in 1..(i - 1) : InAttrMap(pairs[j].key)

NotImplemented(detail) == Raise("NotImplementedError", detail, "")

\* C17: a path outside a handler's supported set fails with NotImplemented:
\* a User replace that comes to a pair whose path is neither a key of
\* ATTR_MAP nor the emails path, without having saved; a Group add or remove
\* whose path is not members and a Group replace whose path is not name,
\* leaving the group as it was.  A ComplexAttrPath is such a path for every
\* handler.
C17_UnsupportedPathNotImplemented ==
    /\ (AfterHandler("user", "handle_replace")
          /\ ReachesUnsupportedPair(ReplacePairsOf(last.path, last.value)))
          => /\ last.res = NotImplemented("Not Implemented")
             /\ last.saves = 0
    /\ \A h \in {"handle_add", "handle_remove"} :
          (AfterHandler("group", h) /\ last.path # NPathTuple(<<"members", NoneS, NoneS>>))
              => last.res = NotImplemented("") /\ group = last.group
    /\ (AfterHandler("group", "handle_replace")
          /\ last.path # NPathTuple(<<"name", NoneS, NoneS>>))
          => last.res = NotImplemented("") /\ group = last.group
    /\ (AfterPatch /\ last.handler # "" /\ last.path.k = "complex"
                   /\ (last.adapter = "user" => last.value.t = "str"))
          => last.res.kind = "NotImplementedError" /\ ObjectsUnchanged

C17_Witness ==
    /\ AfterHandler("group", "handle_add")
    /\ last.operation.path = ComplexPathString
    /\ last.path.k = "complex"
    /\ last.value = PyList(<<Item("1", FALSE)>>)
    /\ last.res = NotImplemented("")
    /\ group.user_set = {}

\* C18: the op code is case-insensitive: an operation whose op code has
\* upper-case letters is validated and dispatched as the operation with the
\* lower-cased op code is, to the same handler and with the same outcome on
\* the resource; an op code that lower-cases to add, remove or replace is
\* never refused as unknown.
C18_OpCodeCaseInsensitive ==
    (AfterPatch /\ last.operation.op # Lower(last.operation.op))
        => /\ LET lower ==
                     HandleOperation(last.adapter,
                                     IF last.adapter = "user" THEN last.user ELSE last.group,
                                     [last.operation EXCEPT !.op = Lower(@)])
              IN /\ last.res = lower.res
                 /\ last.handler = lower.handler
                 /\ ObjectOf(last.adapter) = lower.obj
                 /\ last.saves = lower.saves
           /\ last.parsed => last.handler = "handle_" \o Lower(last.operation.op)
           /\ last.res.detail # "Unknown PATCH op"

C18_Witness ==
    /\ AfterHandler("user", "handle_replace")
    /\ last.operation = [op |-> "Replace", path |-> "userName", value |-> PyStr("bob")]
    /\ last.res.kind = "ok"
    /\ last.user.username = PyStr("alice")
    /\ user.username = PyStr("bob")

\* C19: a Group replace on name with a list assigns the value of the first
\* element of the list as the group's name, saves the group inside the
\* handler and leaves the membership as it was.
C19_GroupReplaceName ==
    (AfterHandler("group", "handle_replace")
        /\ last.path = NPathTuple(<<"name", NoneS, NoneS>>)
        /\ last.value.t = "list" /\ last.value.items # <<>>)
        => /\ last.res.kind = "ok"
           /\ group = [last.group EXCEPT !.name = PyStr(last.value.items[1].value)]
           /\ last.saves = 1
           /\ last.persisted = group

C19_Witness ==
    /\ AfterHandler("group", "handle_replace")
    /\ last.value = PyList(<<Item("staff", FALSE), Item("admins", FALSE)>>)
    /\ last.group = [name |-> PyStr("admins"), user_set |-> {1}]
    /\ group = [name |-> PyStr("staff"), user_set |-> {1}]
    /\ last.saves = 1

\* C20: whenever the e-mail selection fails with BadRequest "Invalid email
\* value" the stored email is what it was, and a step that changes the
\* stored email succeeds and stores an address the validator accepts.
C20_EmailValidatedBeforeStored ==
    /\ (last.kind # "none" /\ last.res = InvalidEmail)
          => user.email = last.user.email
    /\ (last.kind # "none" /\ user.email # last.user.email)
          => /\ last.res.kind = "ok"
             /\ user.email.t = "str"
             /\ EmailValid(user.email.str)

C20_Witness ==
    /\ last.kind = "from_dict"
    /\ last.d.emails = PyList(<<Item("b@x.com", FALSE), Item("NOPE", TRUE)>>)
    /\ last.d.userName = PyStr("bob")
    /\ last.res = InvalidEmail
    /\ last.user.username = PyStr("alice")
    /\ user.username = PyStr("bob")
    /\ user.email = PyStr("old@x.com")

\* C21: in a User replace given with both a path and a non-empty mapping,
\* the keys of the mapping reach the handler as they were sent, unresolved,
\* and the resolved path plays no part: the replace fails with
\* NotImplemented on its first pair, assigns no field and does not save.
C21_PathWithMappingNotImplemented ==
    (AfterHandler("user", "handle_replace")
        /\ last.operation.path # NoPath
        /\ last.operation.value.t = "dict"
        /\ last.operation.value.kv # <<>>)
        => /\ last.value = last.operation.value
           /\ \A i \in 1..Len(last.value.kv) : last.value.kv[i].key.k = "str"
           /\ last.res = NotImplemented("Not Implemented")
           /\ user = last.user
           /\ last.saves = 0

C21_Witness ==
    /\ AfterHandler("user", "handle_replace")
    /\ last.operation.path = "name"
    /\ last.operation.value =
          PyDict(<<[key |-> RawKey("userName"), val |-> PyStr("bob")]>>)
    /\ last.path = NPathTuple(<<"name", NoneS, NoneS>>)
    /\ last.res.kind = "NotImplementedError"
    /\ user.username = PyStr("alice")
    /\ last.saves = 0

====
